---- MODULE Spec2Model ----
(***************************************************************************)
(* The client-side authentication/session module of the hospital           *)
(* management application (AuthProvider in contexts/AuthContext, the       *)
(* `api` axios instance of utils/api.js), as a state machine.              *)
(*                                                                         *)
(* One step of the model is one task of the browser's event loop: a user   *)
(* action up to its first await, or the arrival of a server response       *)
(* together with the whole chain of promise continuations it runs.         *)
(***************************************************************************)
EXTENDS Integers, Sequences, FiniteSets, TLC

(***************************************************************************)
(* Bounds of the model.                                                    *)
(***************************************************************************)
\* number of times the model lets the clock advance
MaxTicks == 1
\* deepest chain of refreshToken() calls awaiting one another
MaxDepth == 2
\* number of operations that may have a request in flight at once
MaxInFlight == 1
\* most dot-separated segments of a token string the token functions are
\* tried on
MaxSegments == 4
\* most appointments booked or being booked
MaxAppointments == 2

(***************************************************************************)
(* Values.                                                                 *)
(*                                                                         *)
(* A token string is the sequence of its dot-separated segments, so that   *)
(* token.split('.') is the token itself and its length the number of       *)
(* segments.  A segment is an integer: 0 is the empty segment, a negative  *)
(* number is non-empty text that atob/JSON.parse cannot decode, a positive *)
(* number n is the encoding of a JSON payload whose exp claim is n         *)
(* (seconds).  null/undefined is the empty sequence (no string has zero    *)
(* segments); the empty string is the one-segment token <<0>>.             *)
(***************************************************************************)
NoToken == <<>>
EmptyString == <<0>>
TokA == <<-1, 2, -1>>           \* well-formed, expires at 2 s
TokB == <<-1, 9, -2>>           \* well-formed, expires at 9 s
TokExpired == <<-1, 1, -1>>     \* well-formed, exp claim already passed
TokTwoSeg == <<-1, 9>>          \* two segments
TokGarbled == <<-1, -1, -1>>    \* three segments, payload not decodable

\* tokens a server response may carry (res.data.token)
ResponseTokens == {NoToken, TokA, TokB, TokTwoSeg}
\* what localStorage may hold under 'token' when the process starts
PersistedTokens == {NoToken, TokA, TokExpired, TokTwoSeg, TokGarbled}

NoUser == "null"
Users == {"alice", "bob"}
NoError == "null"
\* sessionExpiry: null
NoExpiry == 0 - 1

SESSION_TIMEOUT == 30 * 60 * 1000
WARNING_TIME == 5 * 60 * 1000
\* a timeout that is not pending
NoTimer == 0 - 1
\* warning: sessionTimeoutRef, expiry: activityTimeoutRef, delayed: the
\* setTimeout(logout, 2000) calls of changePassword; stale: those of them
\* that were set before the session last ended (history)
NoTimers == [warning |-> NoTimer, expiry |-> NoTimer, delayed |-> {}, stale |-> {}]

\* strings: sequences of characters
Str(n) == [i \in 1..n |-> "x"]
EmailGood == <<"a", "@", "b", ".", "c">>
EmailNoDot == <<"a", "@", "b">>
EmailSpace == <<"a", " ", "@", "b", ".", "c">>

\* messages
MsgSrv == "server message"
MsgAuthVerify == "Authentication verification failed"
MsgLoginRequired == "Email and password are required"
MsgEmailInvalid == "Please enter a valid email address"
MsgLoginTokenInvalid == "Login succeeded but token is invalid"
MsgRegisterRequired == "All required fields must be filled"
MsgRegisterPassword == "Password must be at least 8 characters long"
MsgRegisterTokenInvalid == "Registration succeeded but token is invalid"
MsgTypeError == "Cannot read properties of undefined"
MsgProfileFailed == "Profile update failed"
MsgSessionExpired == "Session expired. Please log in again."
MsgLoggedOut == "Logged out successfully"
MsgProfileUpdated == "Profile updated successfully"
MsgWelcomeBack == "Welcome back"
MsgWelcome == "Welcome to the hospital management system"
MsgSomethingWrong == "Something went wrong"
MsgSessionWarning == "Session will expire soon. Please save your work."
MsgWarningToast == "Your session will expire in 5 minutes. Please save your work."
MsgInactivity == "Session expired due to inactivity. Please log in again."
MsgNewPassword == "New password must be at least 8 characters long"
MsgPasswordFailed == "Password change failed"
MsgPasswordChanged == "Password changed successfully. Please log in again."

\* the server before any request
NoReply == [op |-> "", user |-> "", code |-> 0, ids |-> {}]
NoBackend ==
  [appointments |-> <<>>, checked |-> {}, default |-> "scheduled", reply |-> NoReply]

VARIABLES
  state,     \* the reducer state of AuthProvider
  storage,   \* localStorage 'token'
  header,    \* axios.defaults.headers.common['Authorization'] (the token in it)
  calls,     \* per operation: the request in flight, or Idle
  mounted,   \* initialized.current
  now,       \* Date.now()
  ev,        \* what the last step was and did (history)
  timers,    \* the pending setTimeout calls, each by the time it is due
  ticks,     \* how often the clock has advanced (history)
  backend    \* the server: the appointments collection, the POST requests
             \* between their conflict check and their save, the last reply

frontend == <<state, storage, header, calls, mounted, now, ev, timers, ticks>>
vars == <<state, storage, header, calls, mounted, now, ev, timers, ticks, backend>>

(***************************************************************************)
(* Pure helpers.                                                           *)
(***************************************************************************)
\* JavaScript truthiness of a string-or-null
Truthy(token) == token # NoToken /\ token # EmptyString

\* a segment that encodes a JSON payload without an exp claim
NoExpClaim == 0 - 7

\* atob + JSON.parse of a payload segment: does it throw, and payload.exp
Decodable(seg) == seg > 0 \/ seg = NoExpClaim
PayloadExp(seg) == seg

\* payload.exp > Date.now(): seconds compared with milliseconds
isTokenValidMillis(token, t) ==
  IF ~Truthy(token) THEN FALSE
  ELSE IF Len(token) # 3 THEN FALSE
  ELSE IF ~Decodable(token[2]) THEN FALSE
  ELSE IF token[2] = NoExpClaim THEN FALSE
  ELSE PayloadExp(token[2]) > t

\* isTokenValid(token) at time t (ms): payload.exp > Date.now() / 1000, which
\* is false when payload.exp is undefined
isTokenValid(token, t) ==
  IF ~Truthy(token) THEN FALSE
  ELSE IF Len(token) # 3 THEN FALSE
  ELSE IF ~Decodable(token[2]) THEN FALSE
  ELSE IF token[2] = NoExpClaim THEN FALSE
  ELSE PayloadExp(token[2]) * 1000 > t

\* the characters [^\s@]
EmailChar(c) == c # " " /\ c # "@"
AllEmailChars(s, from, to) == \A i \in from..to : EmailChar(s[i])
\* /^[^\s@]+@[^\s@]+\.[^\s@]+$/.test(s)
emailRegexTest(s) ==
  \E i \in 1..Len(s) : \E j \in 1..Len(s) :
    /\ s[i] = "@" /\ s[j] = "."
    /\ 1 < i /\ i + 1 < j /\ j < Len(s)
    /\ AllEmailChars(s, 1, i - 1)
    /\ AllEmailChars(s, i + 1, j - 1)
    /\ AllEmailChars(s, j + 1, Len(s))

(***************************************************************************)
(* The reducer.                                                            *)
(***************************************************************************)
initialState(persisted, t) ==
  [ user |-> NoUser,
    token |-> persisted,
    isAuthenticated |-> FALSE,
    loading |-> TRUE,
    error |-> NoError,
    isInitialized |-> FALSE,
    sessionExpiry |-> NoExpiry,
    lastActivity |-> t ]

\* Date.now() + expiresIn: the lifetime taken for milliseconds
ExpiryOfUnscaled(expiresIn, t) == IF expiresIn # 0 THEN t + expiresIn ELSE NoExpiry

\* action.payload.expiresIn ? Date.now() + expiresIn * 1000 : null
ExpiryOf(expiresIn, t) == IF expiresIn # 0 THEN t + expiresIn * 1000 ELSE NoExpiry

authReducer(s, type, payload, t) ==
  CASE type = "SET_INITIALIZED" ->
         [s EXCEPT !.isInitialized = TRUE, !.loading = FALSE]
    [] type = "USER_LOADING" ->
         [s EXCEPT !.loading = TRUE, !.error = NoError]
    [] type = "USER_LOADED" ->
         [s EXCEPT !.isAuthenticated = TRUE, !.loading = FALSE, !.user = payload,
                   !.error = NoError, !.isInitialized = TRUE, !.lastActivity = t]
    [] type \in {"LOGIN_SUCCESS", "REGISTER_SUCCESS"} ->
         [s EXCEPT !.token = payload.token, !.user = payload.user,
                   !.isAuthenticated = TRUE, !.loading = FALSE, !.error = NoError,
                   !.isInitialized = TRUE,
                   !.sessionExpiry = ExpiryOf(payload.expiresIn, t),
                   !.lastActivity = t]
    [] type = "TOKEN_REFRESH" ->
         [s EXCEPT !.token = payload.token,
                   !.sessionExpiry = ExpiryOf(payload.expiresIn, t),
                   !.lastActivity = t]
    [] type \in {"AUTH_ERROR", "LOGIN_FAIL", "REGISTER_FAIL"} ->
         [s EXCEPT !.token = NoToken, !.user = NoUser, !.isAuthenticated = FALSE,
                   !.loading = FALSE, !.error = payload, !.isInitialized = TRUE,
                   !.sessionExpiry = NoExpiry]
    [] type = "LOGOUT" ->
         [s EXCEPT !.token = NoToken, !.user = NoUser, !.isAuthenticated = FALSE,
                   !.loading = FALSE, !.error = NoError, !.isInitialized = TRUE,
                   !.sessionExpiry = NoExpiry]
    [] type = "LOGOUT_SILENT" ->
         [s EXCEPT !.token = NoToken, !.user = NoUser, !.isAuthenticated = FALSE,
                   !.loading = FALSE, !.error = NoError,
                   !.sessionExpiry = NoExpiry]
    [] type = "UPDATE_ACTIVITY" ->
         [s EXCEPT !.lastActivity = t]
    [] type = "CLEAR_ERRORS" ->
         [s EXCEPT !.error = NoError]
    [] type = "SESSION_WARNING" ->
         [s EXCEPT !.error = MsgSessionWarning]
    [] OTHER -> s

(***************************************************************************)
(* In-flight requests.  Each operation has at most one request in flight.  *)
(* A slot records the interceptor closure of the request that is on the    *)
(* wire (auth: state.isAuthenticated when it was sent), and depth: 0 when  *)
(* the operation's own request is on the wire, d > 0 when the request got  *)
(* a 401 and d nested refreshToken() calls await one another, the d-th     *)
(* POST /api/auth/refresh being on the wire.  msg is the message of the    *)
(* 401 the operation's own request got.  cancelled is history: the request *)
(* was in flight when logout()/logoutSilent() ran.                         *)
(***************************************************************************)
Ops == {"loadUser", "login", "register", "updateProfile", "changePassword", "page"}
Idle == [busy |-> FALSE, auth |-> FALSE, depth |-> 0, msg |-> "", cancelled |-> FALSE]
Sent(auth) == [busy |-> TRUE, auth |-> auth, depth |-> 0, msg |-> "", cancelled |-> FALSE]
NoCalls == [o \in Ops |-> Idle]

(***************************************************************************)
(* The effects of one step are computed on a record W of the mutable       *)
(* parts; trace and toasts list the calls and notices of the step.         *)
(***************************************************************************)
World ==
  [ state |-> state, storage |-> storage, header |-> header, calls |-> calls,
    timers |-> timers, touched |-> FALSE, trace |-> <<>>, toasts |-> <<>> ]

\* the actions whose reducer case assigns lastActivity: Date.now()
Touches(type) ==
  type \in {"USER_LOADED", "LOGIN_SUCCESS", "REGISTER_SUCCESS", "TOKEN_REFRESH",
            "UPDATE_ACTIVITY"}

dispatch(W, type, payload) ==
  [W EXCEPT !.state = authReducer(W.state, type, payload, now),
            !.touched = @ \/ Touches(type)]
toast(W, msg) == [W EXCEPT !.toasts = Append(@, msg)]
note(W, what) == [W EXCEPT !.trace = Append(@, what)]

\* the value setAuthToken(token) returns
setAuthTokenOk(token) == Truthy(token) /\ Len(token) = 3
\* the effect of setAuthToken(token)
setAuthToken(W, token) ==
  IF Truthy(token)
  THEN IF Len(token) = 3
       THEN [W EXCEPT !.header = token, !.storage = token]
       ELSE W
  ELSE [W EXCEPT !.header = NoToken, !.storage = NoToken]

\* clearTimeout(sessionTimeoutRef.current), clearTimeout(activityTimeoutRef.current)
clearTimeouts(W) == [W EXCEPT !.timers.warning = NoTimer, !.timers.expiry = NoTimer]

logoutSilentKeepsHeader(W) ==
  dispatch(note(clearTimeouts([W EXCEPT !.storage = NoToken]), "logoutSilent"),
           "LOGOUT_SILENT", NoUser)

logoutSilentKeepsTimers(W) ==
  dispatch(note([W EXCEPT !.storage = NoToken, !.header = NoToken], "logoutSilent"),
           "LOGOUT_SILENT", NoUser)

logoutSilent(W) ==
  dispatch(note(clearTimeouts([W EXCEPT !.storage = NoToken, !.header = NoToken]),
                "logoutSilent"),
           "LOGOUT_SILENT", NoUser)

logoutKeepsStorage(W) ==
  toast(dispatch(note(clearTimeouts([W EXCEPT !.header = NoToken]), "logout"),
                 "LOGOUT", NoUser),
        MsgLoggedOut)

logout(W) ==
  toast(dispatch(note(clearTimeouts([W EXCEPT !.storage = NoToken, !.header = NoToken]),
                      "logout"),
                 "LOGOUT", NoUser),
        MsgLoggedOut)

(***************************************************************************)
(* Server responses.  status 0: no response arrived (error.response is     *)
(* undefined) and code tells why; msg "" : the body carries no message.    *)
(***************************************************************************)
Response(status, code, token, user, expiresIn, msg) ==
  [ status |-> status, code |-> code, token |-> token, user |-> user,
    expiresIn |-> expiresIn, msg |-> msg ]
ErrorResponses ==
  { Response(400, "", NoToken, NoUser, 0, MsgSrv),
    Response(401, "", NoToken, NoUser, 0, MsgSrv),
    Response(401, "", NoToken, NoUser, 0, ""),
    Response(500, "", NoToken, NoUser, 0, MsgSrv),
    Response(0, "ECONNABORTED", NoToken, NoUser, 0, ""),
    Response(0, "ERR_NETWORK", NoToken, NoUser, 0, "") }
\* {token, user, expiresIn?} of login, register; {token, expiresIn?} of refresh
TokenResponses ==
  { Response(200, "", TokA, "alice", 0, ""),
    Response(200, "", TokB, "bob", 2, ""),
    Response(200, "", TokB, NoUser, 0, ""),
    Response(200, "", NoToken, "alice", 0, ""),
    Response(200, "", TokTwoSeg, "alice", 2, "") }
RefreshResponses ==
  { Response(200, "", TokB, NoUser, 2, ""),
    Response(200, "", TokA, NoUser, 0, ""),
    Response(200, "", NoToken, NoUser, 0, ""),
    Response(200, "", TokTwoSeg, NoUser, 0, "") }
\* {user} of GET /api/auth/me and PUT /api/auth/profile
UserResponses ==
  { Response(200, "", NoToken, u, 0, "") : u \in Users \cup {NoUser} }
PlainResponses == { Response(200, "", NoToken, NoUser, 0, "") }

ResponsesTo(op, depth) ==
  ErrorResponses \cup
    ( IF depth > 0 THEN RefreshResponses
      ELSE IF op \in {"login", "register"} THEN TokenResponses
      ELSE IF op \in {"loadUser", "updateProfile"} THEN UserResponses
      ELSE PlainResponses )

\* axios settles the promise by validateStatus; loadUser passes status < 500
validateStatus(op, depth, status) ==
  IF op = "loadUser" /\ depth = 0 THEN status < 500
  ELSE status >= 200 /\ status < 300
Rejected(op, depth, r) == r.status = 0 \/ ~validateStatus(op, depth, r.status)

\* error.message of the error axios rejects with
AxiosMessage(r) ==
  IF r.status # 0 THEN "Request failed with status code"
  ELSE IF r.code = "ECONNABORTED" THEN "timeout exceeded"
  ELSE "Network Error"
\* error.response?.data?.message || fallback
MessageOr(r, fallback) == IF r.status # 0 /\ r.msg # "" THEN r.msg ELSE fallback

(***************************************************************************)
(* Errors a catch block receives: an axios error (with or without a        *)
(* response) or a plain Error thrown in the try block.                     *)
(***************************************************************************)
AxiosError(r) ==
  [ response |-> r.status # 0, status |-> r.status, code |-> r.code,
    srvmsg |-> r.msg, message |-> AxiosMessage(r) ]
PlainError(m) ==
  [ response |-> FALSE, status |-> 0, code |-> "", srvmsg |-> "", message |-> m ]
\* error.response?.data?.message
ServerMessage(e) == IF e.response THEN e.srvmsg ELSE ""
\* a || b on strings
OrElse(a, b) == IF a # "" THEN a ELSE b

(***************************************************************************)
(* The continuations of the operations: what runs when the awaited request *)
(* settles.                                                                *)
(***************************************************************************)
loadUserCatch(W, e) ==
  LET W1 == IF e.response /\ e.status = 401
            THEN [W EXCEPT !.storage = NoToken, !.header = NoToken]
            ELSE W
  IN dispatch(W1, "AUTH_ERROR", OrElse(ServerMessage(e), MsgAuthVerify))

loadUserThen(W, r) ==
  IF r.status = 200 /\ r.user # NoUser
  THEN dispatch(W, "USER_LOADED", r.user)
  ELSE loadUserCatch(W, PlainError("Invalid user data received"))

\* the catch block of login without its dispatch
loginCatchKeepsLoading(W, e) ==
  LET message == OrElse(ServerMessage(e), OrElse(e.message, "Login failed"))
  IN toast(W, message)

loginCatch(W, e) ==
  LET message == OrElse(ServerMessage(e), OrElse(e.message, "Login failed"))
  IN toast(dispatch(W, "LOGIN_FAIL", message), message)

loginThenKeepsStorage(W, r) ==
  IF Truthy(r.token) /\ setAuthTokenOk(r.token)
  THEN LET W1 == dispatch([W EXCEPT !.header = r.token], "LOGIN_SUCCESS", r)
       IN IF r.user = NoUser
          THEN loginCatch(W1, PlainError(MsgTypeError))
          ELSE toast(W1, MsgWelcomeBack)
  ELSE loginCatch(IF Truthy(r.token) THEN setAuthToken(W, r.token) ELSE W,
                  PlainError(MsgLoginTokenInvalid))

loginThen(W, r) ==
  IF Truthy(r.token) /\ setAuthTokenOk(r.token)
  THEN LET W1 == dispatch(setAuthToken(W, r.token), "LOGIN_SUCCESS", r)
       IN IF r.user = NoUser
          THEN loginCatch(W1, PlainError(MsgTypeError))   \* res.data.user.firstName
          ELSE toast(W1, MsgWelcomeBack)
  ELSE loginCatch(IF Truthy(r.token) THEN setAuthToken(W, r.token) ELSE W,
                  PlainError(MsgLoginTokenInvalid))

registerCatch(W, e) ==
  LET message == OrElse(ServerMessage(e), OrElse(e.message, "Registration failed"))
  IN toast(dispatch(W, "REGISTER_FAIL", message), message)

registerThen(W, r) ==
  IF Truthy(r.token) /\ setAuthTokenOk(r.token)
  THEN LET W1 == dispatch(setAuthToken(W, r.token), "REGISTER_SUCCESS", r)
       IN IF r.user = NoUser
          THEN registerCatch(W1, PlainError(MsgTypeError))
          ELSE toast(W1, MsgWelcome)
  ELSE registerCatch(IF Truthy(r.token) THEN setAuthToken(W, r.token) ELSE W,
                     PlainError(MsgRegisterTokenInvalid))

updateProfileCatch(W, e) ==
  toast(W, OrElse(ServerMessage(e), MsgProfileFailed))

updateProfileThen(W, r) ==
  toast(dispatch(W, "USER_LOADED", r.user), MsgProfileUpdated)

changePasswordCatch(W, e) ==
  note(toast(W, OrElse(ServerMessage(e), MsgPasswordFailed)), "changePassword:failure")

changePasswordThenNoTimeout(W, r) ==
  note(toast(W, MsgPasswordChanged), "changePassword:success")

\* setTimeout(() => logout(), 2000)
changePasswordThen(W, r) ==
  note(note([toast(W, MsgPasswordChanged) EXCEPT !.timers.delayed = @ \cup {now + 2000},
                                                 !.timers.stale = @ \ {now + 2000}],
            "setTimeout:logout"),
       "changePassword:success")

OpCatch(op, W, e) ==
  CASE op = "loadUser" -> loadUserCatch(W, e)
    [] op = "login" -> loginCatch(W, e)
    [] op = "register" -> registerCatch(W, e)
    [] op = "updateProfile" -> updateProfileCatch(W, e)
    [] op = "changePassword" -> changePasswordCatch(W, e)

OpThen(op, W, r) ==
  CASE op = "loadUser" -> loadUserThen(W, r)
    [] op = "login" -> loginThen(W, r)
    [] op = "register" -> registerThen(W, r)
    [] op = "updateProfile" -> updateProfileThen(W, r)
    [] op = "changePassword" -> changePasswordThen(W, r)

Settle(op, W, r) ==
  IF Rejected(op, 0, r) THEN OpCatch(op, W, AxiosError(r)) ELSE OpThen(op, W, r)

(***************************************************************************)
(* refreshToken(): what runs when POST /api/auth/refresh settles, and the  *)
(* value it resolves to.                                                   *)
(***************************************************************************)
\* if (token): the result of setAuthToken is not looked at
refreshSucceedsAnyToken(r) ==
  ~Rejected("refresh", 1, r) /\ Truthy(r.token)

refreshSucceeds(r) ==
  ~Rejected("refresh", 1, r) /\ Truthy(r.token) /\ setAuthTokenOk(r.token)

refreshTokenSettle(W, r) ==
  IF refreshSucceeds(r)
  THEN note(dispatch(setAuthToken(W, r.token), "TOKEN_REFRESH", r), "refreshToken:success")
  ELSE note(logoutSilent(IF ~Rejected("refresh", 1, r) /\ Truthy(r.token)
                         THEN setAuthToken(W, r.token) ELSE W),
            "refreshToken:failure")

(***************************************************************************)
(* The response interceptor AuthProvider registers on the global axios,    *)
(* resumed after `await refreshToken()` resolved to {success: ok}.  k is   *)
(* the level of the request whose 401 it handles: 0 the operation's own    *)
(* request, k > 0 a POST /api/auth/refresh, whose rejection runs the catch *)
(* block of the refreshToken() that sent it and resumes the interceptor    *)
(* one level up.                                                           *)
(***************************************************************************)
RECURSIVE interceptorResume(_, _, _, _, _)
interceptorResume(W, op, k, ok, r401) ==
  LET W1 == IF ok THEN W ELSE toast(logoutSilent(W), MsgSessionExpired)
  IN IF k = 0
     THEN OpCatch(op, W1, AxiosError(r401))
     ELSE interceptorResume(note(logoutSilent(W1), "refreshToken:failure"),
                            op, k - 1, FALSE, r401)

(***************************************************************************)
(* History of the last step: its kind; for a response the operation, its   *)
(* slot and the response; for login, register and changePassword the       *)
(* input; the session and the timeouts before the step; the calls made and *)
(* the notices shown.                                                      *)
(***************************************************************************)
NoInput == [email |-> <<>>, password |-> <<>>, firstName |-> <<>>, lastName |-> <<>>, role |-> <<>>]
NoResponse == Response(0, "", NoToken, NoUser, 0, "")
NoEv ==
  [ kind |-> "init", op |-> "", slot |-> Idle, r |-> NoResponse, input |-> NoInput,
    before |-> [auth |-> FALSE, user |-> NoUser, token |-> NoToken,
                storage |-> NoToken, header |-> NoToken, timers |-> NoTimers,
                state |-> initialState(NoToken, 1000)],
    trace |-> <<>>, toasts |-> <<>> ]
Before ==
  [ auth |-> state.isAuthenticated, user |-> state.user, token |-> state.token,
    storage |-> storage, header |-> header, timers |-> timers, state |-> state ]

Count(seq, x) == Cardinality({i \in 1..Len(seq) : seq[i] = x})
Has(seq, x) == \E i \in 1..Len(seq) : seq[i] = x

\* requests in flight when logout()/logoutSilent() ran are marked (history)
MarkCancelled(W) ==
  IF Has(W.trace, "logout") \/ Has(W.trace, "logoutSilent")
  THEN [o \in Ops |-> IF W.calls[o].busy THEN [W.calls[o] EXCEPT !.cancelled = TRUE]
                                         ELSE W.calls[o]]
  ELSE W.calls

(***************************************************************************)
(* The session timeout effect.  It runs after a step that changed one of   *)
(* its dependencies, state.isAuthenticated and state.lastActivity (every   *)
(* reading of Date.now() counts as a new value): the cleanup of the        *)
(* previous run clears both timeouts, and both are set anew when the state *)
(* is authenticated and holds a token.                                     *)
(***************************************************************************)
sessionTimeoutEffectKeepsTimers(W) ==
  IF W.state.isAuthenticated /\ Truthy(W.state.token) /\ W.timers.expiry = NoTimer
  THEN [W.timers EXCEPT !.warning = now + (SESSION_TIMEOUT - WARNING_TIME),
                        !.expiry = now + SESSION_TIMEOUT]
  ELSE W.timers

sessionTimeoutEffect(W) ==
  IF W.state.isAuthenticated # state.isAuthenticated \/ W.touched
  THEN IF W.state.isAuthenticated /\ Truthy(W.state.token)
       THEN [W.timers EXCEPT !.warning = now + (SESSION_TIMEOUT - WARNING_TIME),
                             !.expiry = now + SESSION_TIMEOUT]
       ELSE [W.timers EXCEPT !.warning = NoTimer, !.expiry = NoTimer]
  ELSE W.timers

\* the delayed logouts that outlive the session that set them (history)
StaleDelayed(W) ==
  IF W.state.isAuthenticated THEN W.timers.stale \cap W.timers.delayed
  ELSE W.timers.delayed

Commit(W, e) ==
  /\ state' = W.state
  /\ storage' = W.storage
  /\ header' = W.header
  /\ calls' = MarkCancelled(W)
  /\ timers' = [sessionTimeoutEffect(W) EXCEPT !.stale = StaleDelayed(W)]
  /\ ev' = [e EXCEPT !.trace = W.trace, !.toasts = W.toasts,
                      !.before = Before]
  /\ UNCHANGED backend

InFlight == Cardinality({o \in Ops : calls[o].busy})
CanSend == InFlight < MaxInFlight

send(W, op) ==
  note([W EXCEPT !.calls[op] = Sent(W.state.isAuthenticated)], "request")

(***************************************************************************)
(* Process start and the initialize effect.                                *)
(***************************************************************************)
loadUser(W) ==
  LET token == W.storage IN
  IF ~Truthy(token)
  THEN dispatch(W, "SET_INITIALIZED", NoUser)
  ELSE IF ~isTokenValid(token, now)
  THEN dispatch([W EXCEPT !.storage = NoToken, !.header = NoToken], "SET_INITIALIZED", NoUser)
  ELSE IF ~setAuthTokenOk(token)
  THEN dispatch(setAuthToken(W, token), "SET_INITIALIZED", NoUser)
  ELSE send(dispatch(setAuthToken(W, token), "USER_LOADING", NoUser), "loadUser")

Init ==
  /\ storage \in PersistedTokens
  /\ state = initialState(storage, 1000)
  /\ header = NoToken
  /\ calls = NoCalls
  /\ mounted = FALSE
  /\ now = 1000
  /\ ev = NoEv
  /\ timers = NoTimers
  /\ ticks = 0
  /\ backend = NoBackend

Mount ==
  /\ ~mounted
  /\ mounted' = TRUE
  /\ Commit(loadUser(World), [NoEv EXCEPT !.kind = "mount"])
  /\ UNCHANGED <<now, ticks>>

\* the page is loaded anew: memory and timeouts are lost, localStorage is kept
Restart ==
  /\ mounted
  /\ state' = initialState(storage, now)
  /\ header' = NoToken
  /\ calls' = NoCalls
  /\ mounted' = FALSE
  /\ timers' = NoTimers
  /\ ev' = [NoEv EXCEPT !.kind = "restart"]
  /\ UNCHANGED <<storage, now, ticks, backend>>

(***************************************************************************)
(* Time.  The clock advances by a second, to the time a pending timeout is *)
(* due, or to a second before the auto-logout is due.  setTimeout promises *)
(* a minimum delay only: a callback runs when its time has come, not       *)
(* before, and the callbacks that are due run in the order of their times. *)
(***************************************************************************)
Deadlines == ({timers.warning, timers.expiry} \ {NoTimer}) \cup timers.delayed
Targets ==
  {now + 1000} \cup Deadlines
    \cup (IF timers.expiry = NoTimer THEN {} ELSE {timers.expiry - 1000})

\* timeout d is due and no pending timeout is due before it
Due(d) == d # NoTimer /\ d <= now /\ \A other \in Deadlines : other >= d

Tick ==
  /\ ticks < MaxTicks
  /\ \E t \in Targets :
       /\ t > now
       /\ now' = t
  /\ ticks' = ticks + 1
  /\ ev' = [NoEv EXCEPT !.kind = "tick"]
  /\ UNCHANGED <<state, storage, header, calls, mounted, timers, backend>>

\* the callback of the timeout in sessionTimeoutRef
sessionWarning(W) ==
  toast(dispatch([W EXCEPT !.timers.warning = NoTimer], "SESSION_WARNING", NoUser),
        MsgWarningToast)

\* the callback of the timeout in activityTimeoutRef
autoLogout(W) ==
  toast(logoutSilent([W EXCEPT !.timers.expiry = NoTimer]), MsgInactivity)

SessionWarning ==
  /\ Due(timers.warning)
  /\ Commit(sessionWarning(World), [NoEv EXCEPT !.kind = "sessionWarning"])
  /\ UNCHANGED <<mounted, now, ticks>>

AutoLogout ==
  /\ Due(timers.expiry)
  /\ Commit(autoLogout(World), [NoEv EXCEPT !.kind = "autoLogout"])
  /\ UNCHANGED <<mounted, now, ticks>>

\* the callback of a setTimeout(() => logout(), 2000) of changePassword
DelayedLogout ==
  /\ \E d \in timers.delayed :
       /\ Due(d)
       /\ Commit(logout([World EXCEPT !.timers.delayed = @ \ {d}]),
                 [NoEv EXCEPT !.kind = "delayedLogout"])
  /\ UNCHANGED <<mounted, now, ticks>>

\* a mousedown, mousemove, keypress, scroll, touchstart or click event
updateActivity(W) == dispatch(W, "UPDATE_ACTIVITY", NoUser)

UpdateActivity ==
  /\ mounted
  /\ Commit(updateActivity(World), [NoEv EXCEPT !.kind = "activity"])
  /\ UNCHANGED <<mounted, now, ticks>>

(***************************************************************************)
(* The operations the pages call.                                          *)
(***************************************************************************)
login(W, email, password) ==
  LET W1 == dispatch(W, "USER_LOADING", NoUser) IN
  IF Len(email) = 0 \/ Len(password) = 0
  THEN loginCatch(W1, PlainError(MsgLoginRequired))
  ELSE IF ~emailRegexTest(email)
  THEN loginCatch(W1, PlainError(MsgEmailInvalid))
  ELSE send(W1, "login")

registerSkipsPasswordCheck(W, formData) ==
  LET W1 == dispatch(W, "USER_LOADING", NoUser) IN
  IF Len(formData.email) = 0 \/ Len(formData.password) = 0 \/ Len(formData.firstName) = 0
       \/ Len(formData.lastName) = 0 \/ Len(formData.role) = 0
  THEN registerCatch(W1, PlainError(MsgRegisterRequired))
  ELSE IF ~emailRegexTest(formData.email)
  THEN registerCatch(W1, PlainError(MsgEmailInvalid))
  ELSE send(W1, "register")

register(W, formData) ==
  LET W1 == dispatch(W, "USER_LOADING", NoUser) IN
  IF Len(formData.email) = 0 \/ Len(formData.password) = 0 \/ Len(formData.firstName) = 0
       \/ Len(formData.lastName) = 0 \/ Len(formData.role) = 0
  THEN registerCatch(W1, PlainError(MsgRegisterRequired))
  ELSE IF ~emailRegexTest(formData.email)
  THEN registerCatch(W1, PlainError(MsgEmailInvalid))
  ELSE IF Len(formData.password) < 8
  THEN registerCatch(W1, PlainError(MsgRegisterPassword))
  ELSE send(W1, "register")

updateProfile(W) == send(W, "updateProfile")

changePassword(W, newPassword) ==
  IF Len(newPassword) < 8
  THEN changePasswordCatch(W, PlainError(MsgNewPassword))
  ELSE send(W, "changePassword")

\* a page calls patientsAPI, doctorsAPI, appointmentsAPI or medicinesAPI
pageRequest(W) == send(W, "page")

FormData(e, p, f) ==
  [email |-> e, password |-> p, firstName |-> f, lastName |-> Str(1), role |-> Str(1)]
FormDatas ==
  { FormData(EmailGood, Str(8), Str(1)),
    FormData(EmailGood, Str(5), Str(1)),
    FormData(EmailGood, Str(0), Str(1)),
    FormData(EmailGood, Str(8), Str(0)),
    FormData(<<>>, Str(8), Str(1)),
    FormData(EmailNoDot, Str(8), Str(1)),
    FormData(EmailSpace, Str(8), Str(1)) }
\* the (email, password) pairs the Login page submits
Credentials ==
  { <<EmailGood, Str(8)>>, <<EmailGood, Str(5)>>, <<EmailGood, Str(0)>>,
    <<<<>>, Str(8)>>, <<EmailNoDot, Str(8)>>, <<EmailSpace, Str(5)>> }

\* the Login page is shown: not authenticated, not loading
Login ==
  /\ CanSend
  /\ mounted /\ ~state.isAuthenticated /\ ~state.loading /\ ~calls["login"].busy
  /\ \E c \in Credentials :
       Commit(login(World, c[1], c[2]),
              [NoEv EXCEPT !.kind = "login",
                           !.input = [NoInput EXCEPT !.email = c[1], !.password = c[2]]])
  /\ UNCHANGED <<mounted, now, ticks>>

Register ==
  /\ CanSend
  /\ mounted /\ ~state.isAuthenticated /\ ~state.loading /\ ~calls["register"].busy
  /\ \E formData \in FormDatas :
       Commit(register(World, formData), [NoEv EXCEPT !.kind = "register", !.input = formData])
  /\ UNCHANGED <<mounted, now, ticks>>

\* the Navbar and the protected pages are shown: authenticated, not loading
Logout ==
  /\ mounted /\ state.isAuthenticated /\ ~state.loading
  /\ Commit(logout(World), [NoEv EXCEPT !.kind = "logout"])
  /\ UNCHANGED <<mounted, now, ticks>>

UpdateProfile ==
  /\ CanSend
  /\ mounted /\ state.isAuthenticated /\ ~state.loading /\ ~calls["updateProfile"].busy
  /\ Commit(updateProfile(World), [NoEv EXCEPT !.kind = "updateProfile"])
  /\ UNCHANGED <<mounted, now, ticks>>

\* the Profile page submits the password form
ChangePassword ==
  /\ CanSend
  /\ mounted /\ state.isAuthenticated /\ ~state.loading /\ ~calls["changePassword"].busy
  /\ \E newPassword \in {Str(8), Str(5)} :
       Commit(changePassword(World, newPassword),
              [NoEv EXCEPT !.kind = "changePassword",
                           !.input = [NoInput EXCEPT !.password = newPassword]])
  /\ UNCHANGED <<mounted, now, ticks>>

PageRequest ==
  /\ CanSend
  /\ mounted /\ state.isAuthenticated /\ ~state.loading /\ ~calls["page"].busy
  /\ Commit(pageRequest(World), [NoEv EXCEPT !.kind = "page"])
  /\ UNCHANGED <<mounted, now, ticks>>

(***************************************************************************)
(* A response arrives for a request sent through the global axios.         *)
(***************************************************************************)
\* the condition under which AuthProvider's interceptor calls refreshToken()
interceptorRefreshes(op, slot, r) ==
  Rejected(op, slot.depth, r) /\ r.status = 401 /\ slot.auth

\* the interceptor up to `await refreshToken()`, refreshToken() up to its await
interceptorAwaitRefresh(W, op, slot, r) ==
  note(note([W EXCEPT !.calls[op] =
                 [ busy |-> TRUE, auth |-> W.state.isAuthenticated,
                   depth |-> slot.depth + 1,
                   msg |-> IF slot.depth = 0 THEN r.msg ELSE slot.msg,
                   cancelled |-> FALSE ]],
            "refreshToken"),
       "request")

axiosResponse(W, op, slot, r) ==
  LET W0 == [W EXCEPT !.calls[op] = Idle] IN
  IF interceptorRefreshes(op, slot, r)
  THEN interceptorAwaitRefresh(W, op, slot, r)
  ELSE IF slot.depth = 0
  THEN Settle(op, W0, r)
  ELSE interceptorResume(refreshTokenSettle(W0, r), op, slot.depth - 1, refreshSucceeds(r),
                         Response(401, "", NoToken, NoUser, 0, slot.msg))

\* the request of operation op that is on the wire settles
RespondTo(op) ==
  /\ mounted
  /\ calls[op].busy
  /\ \E r \in ResponsesTo(op, calls[op].depth) :
       /\ interceptorRefreshes(op, calls[op], r) => calls[op].depth < MaxDepth
       /\ Commit(axiosResponse(World, op, calls[op], r),
                 [NoEv EXCEPT !.kind = "response", !.op = op, !.slot = calls[op], !.r = r])
  /\ UNCHANGED <<mounted, now, ticks>>

RespondAxios == \E op \in Ops \ {"page"} : RespondTo(op)

(***************************************************************************)
(* A response arrives for a request sent through the `api` instance.       *)
(***************************************************************************)
\* the 401 branch: the token is removed and window.location.href = '/login'
\* loads the page anew
apiUnauthorized(r) == Rejected("page", 0, r) /\ r.status = 401

apiResponse(W, r) ==
  LET W0 == [W EXCEPT !.calls["page"] = Idle] IN
  IF ~Rejected("page", 0, r) THEN W0
  ELSE IF r.status = 401 THEN [W0 EXCEPT !.storage = NoToken]
  ELSE toast(W0, MessageOr(r, MsgSomethingWrong))

RespondApi ==
  /\ mounted
  /\ calls["page"].busy
  /\ \E r \in ResponsesTo("page", 0) :
       LET W == apiResponse(World, r)
           e == [NoEv EXCEPT !.kind = "response", !.op = "page", !.slot = calls["page"], !.r = r]
       IN IF apiUnauthorized(r)
          THEN /\ storage' = W.storage
               /\ state' = initialState(W.storage, now)
               /\ header' = NoToken
               /\ calls' = NoCalls
               /\ mounted' = FALSE
               /\ timers' = NoTimers
               /\ ev' = [e EXCEPT !.before = Before]
               /\ UNCHANGED backend
          ELSE /\ Commit(W, e)
               /\ UNCHANGED mounted
  /\ UNCHANGED <<now, ticks>>

Next ==
  \/ Mount
  \/ Restart
  \/ Tick
  \/ Login
  \/ Register
  \/ Logout
  \/ UpdateProfile
  \/ ChangePassword
  \/ PageRequest
  \/ UpdateActivity
  \/ SessionWarning
  \/ AutoLogout
  \/ DelayedLogout
  \/ RespondAxios
  \/ RespondApi

Spec == Init /\ [][Next]_vars

\* Every request carries a timeout (10 s for GET /api/auth/me, 15 s for login
\* and register), so each one settles: with a response, or with a timeout or
\* network error.
FairSpec ==
  Spec /\ \A op \in {"loadUser", "login", "register"} : WF_vars(RespondTo(op))

TypeOK ==
  /\ state.isAuthenticated \in BOOLEAN
  /\ mounted \in BOOLEAN
  /\ \A o \in Ops : calls[o].depth \in 0..MaxDepth

(***************************************************************************)
(* Properties.                                                             *)
(***************************************************************************)
IsResponse == ev.kind = "response"
RefreshCalls == Count(ev.trace, "refreshToken")
Cleared ==
  /\ ~state.isAuthenticated
  /\ state.token = NoToken
  /\ storage = NoToken
  /\ header = NoToken

\* C1: every 401 answer to a request that was sent while the session was
\* authenticated, and that arrives while it is authenticated, starts exactly one
\* refreshToken() call, through the global axios and through the `api` instance
\* alike.
C1_UnauthorizedRefreshesOnce ==
  (IsResponse /\ ev.slot.depth = 0 /\ ev.r.status = 401 /\ ev.slot.auth /\ ev.before.auth)
    => RefreshCalls = 1

\* C2: a 401 answer to the POST /api/auth/refresh of refreshToken() starts no
\* further refreshToken() call.
C2_RefreshDoesNotRecurse ==
  (IsResponse /\ ev.slot.depth > 0 /\ ev.r.status = 401) => RefreshCalls = 0

\* C3: after GET /api/auth/me of loadUser is answered with 401 the token is gone
\* from localStorage, from the default Authorization header and from the session
\* state, and the session is not authenticated.
C3_ProfileLoad401ClearsToken ==
  (IsResponse /\ ev.op = "loadUser" /\ ev.r.status = 401) => Cleared

\* C4: after loadUser fails with a 5xx answer or a timeout the token is still in
\* localStorage, still in the default header and still in the session state, and
\* the error field is set.
C4_ProfileLoadServerErrorKeepsToken ==
  (IsResponse /\ ev.op = "loadUser" /\ Truthy(ev.before.token)
     /\ (ev.r.status >= 500 \/ ev.r.code = "ECONNABORTED"))
    => /\ storage = ev.before.storage
       /\ header = ev.before.header
       /\ state.token = ev.before.token
       /\ state.error # NoError

\* C5: whenever the session is authenticated it holds a three-segment token
\* whose expiry claim has not passed (the half of the equivalence the claim
\* spells out).
C5_AuthenticatedHoldsValidToken ==
  state.isAuthenticated =>
    (Truthy(state.token) /\ Len(state.token) = 3 /\ isTokenValid(state.token, now))

\* C6: the completion of a request that was in flight when logout() or
\* logoutSilent() ran does not authenticate the session, set a user, put a token
\* into the session state, persist a token or attach one.
C6_StaleCompletionIgnored ==
  (IsResponse /\ ev.slot.cancelled)
    => /\ state.isAuthenticated => ev.before.auth
       /\ state.user # NoUser => state.user = ev.before.user
       /\ Truthy(state.token) => state.token = ev.before.token
       /\ Truthy(storage) => storage = ev.before.storage
       /\ Truthy(header) => header = ev.before.header

\* C7: login with a well-formed email and a non-empty password of fewer than 8
\* characters sends no request and leaves the minimum-length message as the
\* error.
C7_LoginRejectsShortPassword ==
  (ev.kind = "login" /\ emailRegexTest(ev.input.email)
     /\ Len(ev.input.password) > 0 /\ Len(ev.input.password) < 8)
    => (~Has(ev.trace, "request") /\ state.error = MsgRegisterPassword)

\* C8: when a refreshToken() call started by a 401 fails, the step ends with the
\* session not authenticated, the token gone from the session state, from
\* localStorage and from the default header, and the session-expired notice
\* shown.
C8_RefreshFailureClearsSession ==
  (IsResponse /\ Has(ev.trace, "refreshToken:failure"))
    => (Cleared /\ Has(ev.toasts, MsgSessionExpired))

C8_Witness ==
  /\ IsResponse /\ ev.slot.depth = 1 /\ ev.before.auth /\ Truthy(ev.before.storage)
  /\ Has(ev.trace, "refreshToken:failure")
  /\ Has(ev.toasts, MsgSessionExpired)

\* C9: when a refreshToken() call started by a 401 succeeds, the session is
\* authenticated with the user it had, and the new token is the one in the
\* session state, in localStorage and in the default header.
C9_RefreshSuccessKeepsSession ==
  (IsResponse /\ Has(ev.trace, "refreshToken:success"))
    => /\ state.isAuthenticated
       /\ state.user = ev.before.user
       /\ state.token = ev.r.token
       /\ storage = ev.r.token
       /\ header = ev.r.token

\* C10: when the process starts with a persisted token that isTokenValid rejects,
\* the initialize effect sends no request, removes the token from localStorage,
\* attaches nothing, and leaves the session ready, unauthenticated and holding no
\* token.
C10_BadPersistedTokenTreatedAsAbsent ==
  (ev.kind = "mount" /\ Truthy(ev.before.storage) /\ ~isTokenValid(ev.before.storage, now))
    => /\ ~Has(ev.trace, "request")
       /\ storage = NoToken
       /\ header = NoToken
       /\ state.isInitialized /\ ~state.loading /\ ~state.isAuthenticated
       /\ state.token = NoToken

(***************************************************************************)
(* Logout, the session timeouts and the operations' own validation.        *)
(***************************************************************************)
LogoutRan == ev.kind \in {"logout", "delayedLogout"}
SessionTimersCleared == timers.warning = NoTimer /\ timers.expiry = NoTimer

\* C11: logout() succeeds locally from any state: it sends no request, removes
\* the persisted token, detaches the Authorization header, cancels the warning
\* and the auto-logout timeout and leaves token = null, user = null,
\* isAuthenticated = false
C11_LogoutSucceedsLocally ==
  LogoutRan =>
    /\ ~Has(ev.trace, "request")
    /\ storage = NoToken
    /\ header = NoToken
    /\ SessionTimersCleared
    /\ state.token = NoToken
    /\ state.user = NoUser
    /\ ~state.isAuthenticated

\* logout() has run on an authenticated session with a persisted token, an
\* attached header and both timeouts pending
C11_Witness ==
  /\ ev.kind = "logout"
  /\ ev.before.auth /\ Truthy(ev.before.storage) /\ Truthy(ev.before.header)
  /\ ev.before.timers.warning # NoTimer /\ ev.before.timers.expiry # NoTimer
  /\ Cleared /\ SessionTimersCleared

\* the states in which the program runs logout() or logoutSilent(): the
\* Navbar is shown, a timeout is pending, or a refreshToken() call awaits
CallSite ==
  /\ mounted
  /\ \/ state.isAuthenticated
     \/ timers # NoTimers
     \/ \E o \in Ops : calls[o].busy /\ calls[o].depth > 0

\* worlds a and b differ in the notices only, a showing one more: msg
SameButNotice(a, b, msg) ==
  /\ a.state = b.state
  /\ a.storage = b.storage
  /\ a.header = b.header
  /\ a.calls = b.calls
  /\ a.timers = b.timers
  /\ sessionTimeoutEffect(a) = sessionTimeoutEffect(b)
  /\ a.toasts = Append(b.toasts, msg)

\* C12: run from the same state, logoutSilent() and logout() leave the same
\* session fields, persisted token, header and timeouts; they differ only in
\* the notice "Logged out successfully" that logout() shows
C12_LogoutSilentEqualsLogout ==
  CallSite => SameButNotice(logout(World), logoutSilent(World), MsgLoggedOut)

\* a state with a session to clear: authenticated, token persisted and
\* attached, timeouts pending, in which both calls clear it
C12_Witness ==
  /\ CallSite
  /\ state.isAuthenticated /\ state.user # NoUser /\ Truthy(state.token)
  /\ Truthy(storage) /\ Truthy(header) /\ timers.expiry # NoTimer
  /\ logoutSilent(World).storage = NoToken
  /\ ~logoutSilent(World).state.isAuthenticated
  /\ logout(World).timers.expiry = NoTimer

\* C13: while the session is authenticated the auto-logout is pending and due
\* 30 minutes after the last activity; when it runs it clears the session and
\* shows the inactivity notice exactly once
C13_InactivityLogsOutOnce ==
  /\ state.isAuthenticated => timers.expiry = state.lastActivity + SESSION_TIMEOUT
  /\ ev.kind = "autoLogout" =>
       /\ Cleared
       /\ state.user = NoUser
       /\ SessionTimersCleared
       /\ Count(ev.toasts, MsgInactivity) = 1

\* C14: after an activity at time t in an authenticated session no warning is
\* pending that is due before t + (30 min - 5 min) and no auto-logout that is
\* due before t + 30 min (the timeouts set before are cancelled); with a
\* token in the state both are pending and due exactly then
C14_ActivityResetsTimers ==
  (ev.kind = "activity" /\ state.isAuthenticated) =>
    /\ timers.warning = NoTimer \/ timers.warning >= now + (SESSION_TIMEOUT - WARNING_TIME)
    /\ timers.expiry = NoTimer \/ timers.expiry >= now + SESSION_TIMEOUT
    /\ Truthy(state.token) =>
         /\ timers.warning = now + (SESSION_TIMEOUT - WARNING_TIME)
         /\ timers.expiry = now + SESSION_TIMEOUT

\* an activity one second before the auto-logout was due has moved it
C14_Witness ==
  /\ ev.kind = "activity"
  /\ state.isAuthenticated
  /\ ev.before.timers.expiry # NoTimer
  /\ now = ev.before.timers.expiry - 1000
  /\ timers.expiry = now + SESSION_TIMEOUT
  /\ timers.warning = now + (SESSION_TIMEOUT - WARNING_TIME)

\* input that fails the local validation of login, of register
LoginInvalid(input) ==
  Len(input.email) = 0 \/ Len(input.password) = 0 \/ ~emailRegexTest(input.email)
RegisterInvalid(input) ==
  \/ Len(input.email) = 0 \/ Len(input.password) = 0 \/ Len(input.firstName) = 0
  \/ Len(input.lastName) = 0 \/ Len(input.role) = 0
  \/ ~emailRegexTest(input.email)
  \/ Len(input.password) < 8
ValidationFailed ==
  \/ ev.kind = "login" /\ LoginInvalid(ev.input)
  \/ ev.kind = "register" /\ RegisterInvalid(ev.input)

ChangePasswordFailed == Has(ev.trace, "changePassword:failure")
ChangePasswordSucceeded == Has(ev.trace, "changePassword:success")
\* the step did not end a session that was there before it
NotLoggedOut ==
  /\ ev.before.auth => state.isAuthenticated
  /\ state.token = NoToken => ev.before.token = NoToken
  /\ storage = NoToken => ev.before.storage = NoToken
  /\ header = NoToken => ev.before.header = NoToken

C16_ValidationFailureStaysLocal ==
  ValidationFailed =>
    /\ ~Has(ev.trace, "request")
    /\ ~calls[ev.kind].busy
    /\ ~state.isAuthenticated
    /\ state.token = NoToken
    /\ storage = ev.before.storage
    /\ header = ev.before.header

\* register was called with all fields filled, a valid email and a password
\* under 8 characters, and nothing was sent
C16_Witness ==
  /\ ev.kind = "register"
  /\ Len(ev.input.password) > 0 /\ Len(ev.input.password) < 8
  /\ Len(ev.input.firstName) > 0 /\ emailRegexTest(ev.input.email)
  /\ ~Has(ev.trace, "request")
  /\ ~state.isAuthenticated

\* C17: a login or register call whose input fails the local validation
\* writes no session field, the error field included, and shows no notice
C17_ValidationFailureNotSurfaced ==
  ValidationFailed =>
    /\ state = ev.before.state
    /\ ev.toasts = <<>>

\* C18: a 5xx answer or a timeout to a request that was sent and is answered
\* while the session is authenticated leaves isAuthenticated, the user and
\* the token in state, storage and header as they were
C18_ServerErrorKeepsSession ==
  ( /\ IsResponse
    /\ ev.r.status >= 500 \/ ev.r.code = "ECONNABORTED"
    /\ ev.slot.auth /\ ev.before.auth ) =>
    /\ state.isAuthenticated
    /\ state.user = ev.before.user
    /\ state.token = ev.before.token
    /\ storage = ev.before.storage
    /\ header = ev.before.header

\* C19: the persisted token is written and removed by AuthProvider's
\* operations only: a response handled by the `api` instance leaves it as it
\* was
C19_TokenSlotSingleWriter ==
  (IsResponse /\ ev.op = "page") => storage = ev.before.storage

\* C20: after a login whose response carries a token of three segments and a
\* user, isAuthenticated is true, user is the user of the response, the token
\* is in state, storage and header, and error is null
C20_LoginSuccessAuthenticates ==
  ( /\ IsResponse /\ ev.op = "login" /\ ev.slot.depth = 0
    /\ ev.r.status = 200
    /\ Truthy(ev.r.token) /\ Len(ev.r.token) = 3
    /\ ev.r.user # NoUser ) =>
    /\ state.isAuthenticated
    /\ state.user = ev.r.user
    /\ state.token = ev.r.token
    /\ storage = ev.r.token
    /\ header = ev.r.token
    /\ state.error = NoError

\* such a login response has arrived and the session is authenticated
C20_Witness ==
  /\ IsResponse /\ ev.op = "login" /\ ev.slot.depth = 0
  /\ ev.r.status = 200 /\ ev.r.token = TokB /\ ev.r.user = "bob"
  /\ state.isAuthenticated /\ storage = TokB

(***************************************************************************)
(* The token functions on arbitrary token strings.  The page starts with   *)
(* a token string in hand, which is or is not what localStorage holds;     *)
(* then the initialize effect runs, or setAuthToken or isTokenValid is     *)
(* called on that string.                                                  *)
(***************************************************************************)
Segments == {0 - 1, 0, 1, 9, NoExpClaim}
AnyTokens == UNION { [1..n -> Segments] : n \in 0..MaxSegments }

TokenInit ==
  /\ \E token \in AnyTokens :
       /\ storage \in {NoToken, token}
       /\ ev = [NoEv EXCEPT !.r = Response(0, "", token, NoUser, 0, "")]
  /\ now \in {1000, 9000, 10000}
  /\ state = initialState(storage, now)
  /\ header = NoToken
  /\ calls = NoCalls
  /\ mounted = FALSE
  /\ timers = NoTimers
  /\ ticks = 0
  /\ backend = NoBackend

SetAuthTokenCall ==
  /\ ev.kind = "init" /\ storage = NoToken
  /\ Commit(setAuthToken(World, ev.r.token), [ev EXCEPT !.kind = "setAuthToken"])
  /\ UNCHANGED <<mounted, now, ticks>>

IsTokenValidCall ==
  /\ ev.kind = "init" /\ storage = NoToken
  /\ Commit(note(World, IF isTokenValid(ev.r.token, now) THEN "true" ELSE "false"),
            [ev EXCEPT !.kind = "isTokenValid"])
  /\ UNCHANGED <<mounted, now, ticks>>

TokenNext ==
  \/ Mount
  \/ SetAuthTokenCall
  \/ IsTokenValidCall

TokenSpec == TokenInit /\ [][TokenNext]_vars

\* the token is three dot-separated segments, none of them empty
ThreeNonEmptySegments(token) ==
  Len(token) = 3 /\ \A i \in 1..3 : token[i] # 0

\* C21: a token is accepted only if it is three non-empty dot-separated
\* segments; any other token is never attached to the header or persisted by
\* setAuthToken, and the initialize effect sends no request on its behalf
C21_OnlyThreeNonEmptySegmentsAccepted ==
  /\ (ev.kind = "setAuthToken" /\ ~ThreeNonEmptySegments(ev.r.token)) =>
       header = NoToken /\ storage = NoToken
  /\ (ev.kind = "mount" /\ ~ThreeNonEmptySegments(ev.before.storage)) =>
       header = NoToken /\ ~Has(ev.trace, "request")

\* C22: isTokenValid gives false when the payload's exp claim is in the past,
\* true when it is in the future, and false when the payload cannot be
\* decoded or has no exp claim
C22_ExpiryCheck ==
  (ev.kind = "isTokenValid" /\ Len(ev.r.token) = 3) =>
    LET payload == ev.r.token[2]
        result == Has(ev.trace, "true")
    IN /\ (payload > 0 /\ payload * 1000 < now) => ~result
       /\ (payload > 0 /\ payload * 1000 > now) => result
       /\ payload <= 0 => ~result

\* isTokenValid was called on a token whose exp lies in the future and
\* answered true
C22_Witness ==
  /\ ev.kind = "isTokenValid"
  /\ ev.r.token = <<0 - 1, 9, 0 - 1>>
  /\ now = 1000
  /\ Has(ev.trace, "true")

\* the last step completed a login or register successfully
LoginOrRegisterSucceeded ==
  /\ IsResponse /\ ev.op \in {"login", "register"} /\ ev.slot.depth = 0
  /\ ~Rejected(ev.op, 0, ev.r)
  /\ Truthy(ev.r.token) /\ Len(ev.r.token) = 3 /\ ev.r.user # NoUser
\* the last step completed a refreshToken() successfully, and no other
\* refreshToken() was awaiting it
RefreshSucceeded ==
  /\ IsResponse /\ ev.slot.depth = 1 /\ refreshSucceeds(ev.r)
\* the last step ended a login, register or loadUser in failure
AuthFailed ==
  \/ ev.kind \in {"login", "register"} /\ ~Has(ev.trace, "request")
  \/ /\ IsResponse /\ ev.op \in {"login", "register", "loadUser"}
     /\ ~Has(ev.trace, "request")
     /\ ~LoginOrRegisterSucceeded
     /\ ~(ev.op = "loadUser" /\ ev.slot.depth = 0 /\ ~Rejected(ev.op, 0, ev.r)
          /\ ev.r.status = 200 /\ ev.r.user # NoUser)
DeclaredExpiry(r) == IF r.expiresIn # 0 THEN now + r.expiresIn * 1000 ELSE NoExpiry

\* C23: after a successful login, register or refresh sessionExpiry is the
\* time of the completion plus expiresIn * 1000 ms when the response declares
\* a lifetime and null when it declares none; after a step in which logout or
\* logoutSilent ran or a login, register or loadUser failed it is null.
C23_SessionExpiry ==
  /\ (LoginOrRegisterSucceeded \/ RefreshSucceeded) =>
       state.sessionExpiry = DeclaredExpiry(ev.r)
  /\ (LogoutRan \/ Has(ev.trace, "logoutSilent") \/ AuthFailed) =>
       state.sessionExpiry = NoExpiry

\* a login was answered with a token and a lifetime of 2 seconds
C23_Witness ==
  /\ LoginOrRegisterSucceeded /\ ev.op = "login" /\ ev.r.expiresIn = 2
  /\ state.sessionExpiry = now + 2000

\* C24: while the session is authenticated exactly one auto-logout timeout
\* is pending, and exactly one warning timeout, due WARNING_TIME before it,
\* until that warning has run; while it is not authenticated neither is
\* pending.  (The two refs hold at most one timeout each.)
C24_OnePairOfTimers ==
  /\ state.isAuthenticated =>
       /\ timers.expiry # NoTimer
       /\ \/ timers.warning = timers.expiry - WARNING_TIME
          \/ timers.warning = NoTimer /\ now >= timers.expiry - WARNING_TIME
  /\ ~state.isAuthenticated => SessionTimersCleared

\* no request of an operation that changes the session is in flight
NoAuthOperationInFlight == \A o \in Ops \ {"page"} : ~calls[o].busy

\* C25: whenever the provider is initialized and no operation on the session
\* is in flight, state.token equals the persisted token and the Authorization
\* header carries the persisted token, or is absent when none is persisted.
C25_TokenCopiesAgree ==
  (mounted /\ NoAuthOperationInFlight) =>
    /\ state.token = storage
    /\ header = storage

\* the last step ran a delayed logout that was set before the session last
\* ended, on a session that a login or register began since, before the
\* delay had elapsed
StaleLogoutOnNewSession ==
  /\ ev.kind = "delayedLogout"
  /\ \E d \in ev.before.timers.stale :
       d \notin timers.delayed /\ ev.before.state.lastActivity < d
  /\ ev.before.auth /\ Truthy(ev.before.token)

\* C26: the logout that a successful changePassword sets for two seconds
\* later does not end a session that began after the session that changed
\* the password had ended.
C26_DelayedLogoutEndsOwnSession ==
  StaleLogoutOnNewSession => state.isAuthenticated /\ storage = ev.before.storage

\* the last step received a 2xx answer to login, register or refresh that
\* carries no token or a token that is not three segments
BadTokenResponse ==
  /\ IsResponse
  /\ ev.slot.depth > 0 \/ ev.op \in {"login", "register"}
  /\ ~Rejected(ev.op, ev.slot.depth, ev.r)
  /\ ~Truthy(ev.r.token) \/ Len(ev.r.token) # 3

\* C28: after a 2xx answer to login, register or refresh with no token or a
\* token that is not three segments the session is not authenticated, and
\* that token is not in localStorage, not in the header and not in the state.
C28_BadTokenFails ==
  BadTokenResponse =>
    /\ ~state.isAuthenticated
    /\ Truthy(ev.r.token) =>
         storage # ev.r.token /\ header # ev.r.token /\ state.token # ev.r.token

\* a refresh of an authenticated session was answered with a two-segment token
C28_Witness ==
  /\ BadTokenResponse /\ ev.slot.depth = 1 /\ ev.r.token = TokTwoSeg
  /\ ev.before.auth /\ ~state.isAuthenticated

Ready == ~state.loading /\ state.isInitialized

\* C27: whenever the provider is mounted and loading is true (loadUser at
\* mount, or a login or register call, has set it), a state with loading
\* false and isInitialized true follows, unless the page is loaded anew first.
C27_LoadingEnds == (mounted /\ state.loading) ~> (Ready \/ ~mounted)

\* GET /api/auth/me of loadUser timed out and the provider is ready
C27_Witness ==
  /\ IsResponse /\ ev.op = "loadUser" /\ ev.r.code = "ECONNABORTED"
  /\ ev.before.state.loading /\ ~ev.before.state.isInitialized
  /\ Ready

(***************************************************************************)
(* The appointments routes of the server.  A request is made by an         *)
(* authenticated user (req.user: id and role).  Patient.findOne({user}) and *)
(* Doctor.findOne({user}) find the profile of a user, if one exists.        *)
(***************************************************************************)
NoProfile == "none"
ServerUsers == {"pat1", "pat2", "pat0", "doc1", "doc0", "admin"}
Role(u) ==
  IF u \in {"pat1", "pat2", "pat0"} THEN "patient"
  ELSE IF u \in {"doc1", "doc0"} THEN "doctor"
  ELSE "admin"
\* pat0 and doc0 are registered users without a profile record
PatientOf(u) == IF u = "pat1" THEN "P1" ELSE IF u = "pat2" THEN "P2" ELSE NoProfile
DoctorOf(u) == IF u = "doc1" THEN "D1" ELSE NoProfile
PatientIds == {"P1", "P2"}
\* D1 is available, D2 is not (isAvailable), DX is no doctor
DoctorIds == {"D1", "D2", "DX"}
DoctorExists(d) == d \in {"D1", "D2"}
isAvailable(d) == d = "D1"
\* (appointmentDate, appointmentTime) pairs; slot 0 lies in the past
Slots == {0, 1, 2}
InPast(slot) == slot = 0
Statuses == {"scheduled", "confirmed", "in-progress", "cancelled"}
ActiveStatuses == {"scheduled", "confirmed", "in-progress"}
NoStatus == ""

Ids == 1..Len(backend.appointments)
Reply(op, u, code, ids) == [op |-> op, user |-> u, code |-> code, ids |-> ids]
reply(r) == backend' = [backend EXCEPT !.reply = r]

\* Appointment.findOne({doctor, appointmentDate, appointmentTime,
\*                      status: {$in: ['scheduled', 'confirmed', 'in-progress']}})
existingAppointment(doctor, slot) ==
  \E i \in Ids :
    /\ backend.appointments[i].doctor = doctor
    /\ backend.appointments[i].slot = slot
    /\ backend.appointments[i].status \in ActiveStatuses

\* the patient a POST books for, or NoProfile when the request is refused
PostPatient(u, patientId) ==
  IF Role(u) = "patient" THEN PatientOf(u)
  ELSE IF Role(u) = "admin" /\ patientId \in PatientIds THEN patientId
  ELSE NoProfile

\* POST /api/appointments up to `await appointment.save()`
PostAppointment ==
  /\ Len(backend.appointments) + Cardinality(backend.checked) < MaxAppointments
  /\ \E u \in ServerUsers, patientId \in PatientIds \cup {NoProfile},
        doctorId \in DoctorIds, slot \in Slots :
       LET patient == PostPatient(u, patientId) IN
       IF \/ patient = NoProfile
          \/ ~DoctorExists(doctorId)
          \/ ~isAvailable(doctorId)
          \/ InPast(slot)
          \/ existingAppointment(doctorId, slot)
       THEN reply(Reply("POST", u, 400, {}))
       ELSE backend' = [backend EXCEPT
                          !.checked = @ \cup {[patient |-> patient, doctor |-> doctorId,
                                               slot |-> slot, user |-> u]}]
  /\ UNCHANGED frontend

\* appointment.save() of a new document: it is added to the collection with
\* the status the schema gives it
save(appointment) ==
  [backend EXCEPT !.appointments = Append(@, appointment)]

\* POST /api/appointments from `await appointment.save()` on
PostSave ==
  /\ \E c \in backend.checked :
       backend' =
         [save([patient |-> c.patient, doctor |-> c.doctor, slot |-> c.slot,
                status |-> backend.default])
            EXCEPT !.checked = @ \ {c},
                   !.reply = Reply("POST", c.user, 201, {Len(backend.appointments) + 1})]
  /\ UNCHANGED frontend

\* the permission check of PUT /api/appointments/:id
hasPermission(u, appointment) ==
  CASE Role(u) = "admin" -> TRUE
    [] Role(u) = "doctor" -> DoctorOf(u) # NoProfile /\ appointment.doctor = DoctorOf(u)
    [] Role(u) = "patient" -> PatientOf(u) # NoProfile /\ appointment.patient = PatientOf(u)

\* PUT /api/appointments/:id with req.body.status
PutAppointment ==
  /\ \E u \in ServerUsers, id \in 1..MaxAppointments, status \in Statuses \cup {NoStatus} :
       IF id \notin Ids
       THEN reply(Reply("PUT", u, 404, {}))
       ELSE IF ~hasPermission(u, backend.appointments[id])
       THEN reply(Reply("PUT", u, 403, {}))
       ELSE IF Role(u) \in {"doctor", "admin"}
       THEN backend' =
              [backend EXCEPT
                 !.appointments[id].status = IF status # NoStatus THEN status ELSE @,
                 !.reply = Reply("PUT", u, 200, {id})]
       ELSE IF status = "cancelled"
       THEN backend' = [backend EXCEPT !.appointments[id].status = "cancelled",
                                       !.reply = Reply("PUT", u, 200, {id})]
       ELSE reply(Reply("PUT", u, 403, {}))
  /\ UNCHANGED frontend

\* the query GET /api/appointments builds from the user's role and the
\* status parameter: does appointment a match it
RoleFilter(u, a) ==
  /\ (Role(u) = "patient" /\ PatientOf(u) # NoProfile) => a.patient = PatientOf(u)
  /\ (Role(u) = "doctor" /\ DoctorOf(u) # NoProfile) => a.doctor = DoctorOf(u)

\* GET /api/appointments (first page)
GetAppointments ==
  /\ \E u \in ServerUsers, status \in Statuses \cup {NoStatus} :
       reply(Reply("GET", u, 200,
                   { i \in Ids : /\ RoleFilter(u, backend.appointments[i])
                                 /\ status # NoStatus => backend.appointments[i].status = status }))
  /\ UNCHANGED frontend

\* GET /api/appointments/:id
GetAppointment ==
  /\ \E u \in ServerUsers, id \in 1..MaxAppointments :
       IF id \notin Ids
       THEN reply(Reply("GET:id", u, 404, {}))
       ELSE IF \/ Role(u) = "patient" /\ backend.appointments[id].patient # PatientOf(u)
               \/ Role(u) = "doctor" /\ backend.appointments[id].doctor # DoctorOf(u)
       THEN reply(Reply("GET:id", u, 403, {}))
       ELSE reply(Reply("GET:id", u, 200, {id}))
  /\ UNCHANGED frontend

BackendInit ==
  /\ storage = NoToken
  /\ state = initialState(storage, 1000)
  /\ header = NoToken
  /\ calls = NoCalls
  /\ mounted = FALSE
  /\ now = 1000
  /\ ev = NoEv
  /\ timers = NoTimers
  /\ ticks = 0
  /\ \E default \in Statuses : backend = [NoBackend EXCEPT !.default = default]

BackendNext ==
  \/ PostAppointment
  \/ PostSave
  \/ PutAppointment
  \/ GetAppointments
  \/ GetAppointment

BackendSpec == BackendInit /\ [][BackendNext]_vars

C30_OwnAppointmentsOnly ==
  (backend.reply.op = "GET" /\ backend.reply.code = 200) =>
    \A i \in backend.reply.ids :
      /\ Role(backend.reply.user) = "patient" =>
           backend.appointments[i].patient = PatientOf(backend.reply.user)
      /\ Role(backend.reply.user) = "doctor" =>
           backend.appointments[i].doctor = DoctorOf(backend.reply.user)
====
